---- MODULE Spec2Model ----
(***************************************************************************)
(* DeskFriend: the list/item data model (models.py), its JSON persistence  *)
(* (DataManager) and the clipboard watcher (clipboard_manager.py), with    *)
(* the list-window handlers that reach them.                               *)
(*                                                                         *)
(* Encoding of Python values:                                              *)
(*   - str ids and names are TLA+ strings; Python None in such a position  *)
(*     is the string None;                                                 *)
(*   - an ISO timestamp is a positive natural (the clock reading it was    *)
(*     taken at); Python None in a timestamp position is NoTime;           *)
(*   - an item text is a sequence of one-character strings, so that        *)
(*     str.strip() is computed, not assumed;                               *)
(*   - a JSON object (dict) is a function whose DOMAIN is the set of keys  *)
(*     present, so that a missing key differs from a null value;           *)
(*   - a raised exception is the value KeyError.                           *)
(***************************************************************************)
EXTENDS Naturals, Sequences, FiniteSets, TLC

VARIABLES
    settings,        \* DataManager.settings (AppSettings)
    lists,           \* DataManager.lists
    clipboard_list,  \* DataManager.clipboard_list (NoList when None)
    data_file,       \* content of DataManager.data_file on disk
    io_failures,     \* number of saves that failed so far
    last_text,       \* ClipboardManager.last_text
    current_list,    \* ListWindow.current_list (a reference, see CurrentRef)
    settings_shown,  \* whether the modal SettingsWindow is open
    now,             \* reading of datetime.now()
    nextId,          \* number of uuid4() values drawn so far
    item,            \* a stand-alone ListItem (entity-level operations)
    todo,            \* a stand-alone TodoList (entity-level operations)
    hist,            \* the clipboard texts notified so far
    op,              \* the last operation performed and its outcome
    pre              \* the program state just before that operation

vars == <<settings, lists, clipboard_list, data_file, io_failures, last_text, current_list,
          settings_shown, now, nextId, item, todo, hist, op, pre>>

(***************************************************************************)
(* Bounds of the model.                                                    *)
(***************************************************************************)
MaxTime == 2        \* the clock stops advancing here
MaxIds == 3         \* uuid4() is drawn at most this many times
MaxItems == 2       \* items per list created through add_item
MaxNotif == 5       \* clipboard notifications recorded in hist
MaxLists == 2       \* ordinary lists created through add_list
MaxFailures == 1    \* saves that fail

(***************************************************************************)
(* Values.                                                                 *)
(***************************************************************************)
None == "None"
NoTime == 0
NoItem == [none |-> "item"]
NoList == [none |-> "list"]
KeyError == [error |-> "KeyError"]
EmptyDict == [k \in {} |-> None]
\* The data file: absent, unparsable (empty or cut short), or JSON data.
NoFile == [kind |-> "absent"]
Corrupt == [kind |-> "corrupt"]
Json(data) == [kind |-> "json", data |-> data]
CLIPBOARD_LIST_ID == "clipboard_list"

Uuid(n) == "u" \o ToString(n)

\* Python truthiness of an optional str / an optional timestamp.
Falsy(v) == v = None \/ v = ""
FalsyTime(t) == t = NoTime

\* dict.get(key, default) and dict.get(key)
Get(d, k, default) == IF k \in DOMAIN d THEN d[k] ELSE default
Has(d, k) == k \in DOMAIN d

\* list(t) of a tuple, which JSON holds as an array, and tuple(l) of it.
PyList(t) == [list |-> t]
PyTuple(l) == l.list

Chars == {" ", "a", "b"}
Whitespace == {" "}

RECURSIVE LStrip(_)
LStrip(s) == IF s # <<>> /\ Head(s) \in Whitespace THEN LStrip(Tail(s)) ELSE s

RECURSIVE RStrip(_)
RStrip(s) ==
    IF s # <<>> /\ s[Len(s)] \in Whitespace
        THEN RStrip(SubSeq(s, 1, Len(s) - 1))
        ELSE s

\* str.strip()
Strip(s) == RStrip(LStrip(s))

(***************************************************************************)
(* ListItem                                                                *)
(***************************************************************************)
\* ListItem.__init__; `fresh` is the value uuid4() would return and `clock`
\* the reading of datetime.now().
ListItem(text, item_id, created_at, modified_at, validated_at, is_validated, fresh, clock) ==
    LET c == IF FalsyTime(created_at) THEN clock ELSE created_at
    IN  [id |-> IF Falsy(item_id) THEN fresh ELSE item_id,
         text |-> text,
         created_at |-> c,
         modified_at |-> IF FalsyTime(modified_at) THEN c ELSE modified_at,
         validated_at |-> validated_at,
         is_validated |-> is_validated]

NewItem(text, fresh, clock) ==
    ListItem(text, None, NoTime, NoTime, NoTime, FALSE, fresh, clock)

\* validate that also stamps modified_at.
validate_StampsModified(it, clock) ==
    [it EXCEPT !.is_validated = TRUE, !.validated_at = clock, !.modified_at = clock]

validate(it, clock) ==
    [it EXCEPT !.is_validated = TRUE, !.validated_at = clock]

unvalidate(it) ==
    [it EXCEPT !.is_validated = FALSE, !.validated_at = NoTime]

\* update_text that also clears the validation.
update_text_Unvalidates(it, new_text, clock) ==
    [it EXCEPT !.text = new_text, !.modified_at = clock,
               !.is_validated = FALSE, !.validated_at = NoTime]

update_text(it, new_text, clock) ==
    [it EXCEPT !.text = new_text, !.modified_at = clock]

ItemToDict(it) ==
    [id |-> it.id, text |-> it.text, created_at |-> it.created_at,
     modified_at |-> it.modified_at, validated_at |-> it.validated_at,
     is_validated |-> it.is_validated]

\* from_dict without modified_at, which then defaults to created_at.
ItemFromDict_NoModified(d, fresh, clock) ==
    IF ~Has(d, "text") THEN KeyError
    ELSE ListItem(d["text"], Get(d, "id", None), Get(d, "created_at", NoTime),
                  NoTime, Get(d, "validated_at", NoTime),
                  Get(d, "is_validated", FALSE), fresh, clock)

\* ListItem.from_dict: data["text"] raises KeyError, every other key is
\* read with data.get().
ItemFromDict(d, fresh, clock) ==
    IF ~Has(d, "text") THEN KeyError
    ELSE ListItem(d["text"], Get(d, "id", None), Get(d, "created_at", NoTime),
                  Get(d, "modified_at", NoTime), Get(d, "validated_at", NoTime),
                  Get(d, "is_validated", FALSE), fresh, clock)

\* Whether from_dict(d) draws a uuid4().
ItemDrawsId(d) == Falsy(Get(d, "id", None))

(***************************************************************************)
(* TodoList                                                                *)
(***************************************************************************)
\* TodoList.__init__; `items or []` is the sequence itself.
TodoList(name, color, list_id, items, fresh) ==
    [id |-> IF Falsy(list_id) THEN fresh ELSE list_id,
     name |-> name, color |-> color, items |-> items]

\* add_item putting the new item at the front.
add_item_Front(l, text, fresh, clock) ==
    [l EXCEPT !.items = <<NewItem(text, fresh, clock)>> \o @]

add_item(l, text, fresh, clock) ==
    [l EXCEPT !.items = Append(@, NewItem(text, fresh, clock))]

remove_item(l, item_id) ==
    [l EXCEPT !.items = SelectSeq(@, LAMBDA it : it.id # item_id)]

get_item(l, item_id) ==
    LET hits == SelectSeq(l.items, LAMBDA it : it.id = item_id)
    IN  IF hits = <<>> THEN NoItem ELSE Head(hits)

ListToDict(l) ==
    [id |-> l.id, name |-> l.name, color |-> l.color,
     items |-> [i \in DOMAIN l.items |-> ItemToDict(l.items[i])]]

\* [ListItem.from_dict(x) for x in ds], drawing uuid4() values after the
\* n already drawn: [items, n] with the new count, or KeyError.
RECURSIVE ItemsFromDicts(_, _, _)
ItemsFromDicts(ds, n, clock) ==
    IF Len(ds) = 0 THEN [items |-> <<>>, n |-> n]
    ELSE LET first == ItemFromDict(Head(ds), Uuid(n + 1), clock)
             n1 == IF ItemDrawsId(Head(ds)) THEN n + 1 ELSE n
             rest == ItemsFromDicts(Tail(ds), n1, clock)
         IN  IF first = KeyError \/ rest = KeyError THEN KeyError
             ELSE [items |-> <<first>> \o rest.items, n |-> rest.n]

\* TodoList.from_dict: the items first, then data["name"], data["color"]
\* (KeyError when missing) and data.get("id"): [list, n] or KeyError.
ListFromDict(d, n, clock) ==
    LET got == ItemsFromDicts(Get(d, "items", <<>>), n, clock)
    IN  IF got = KeyError \/ ~Has(d, "name") \/ ~Has(d, "color") THEN KeyError
        ELSE LET draws == Falsy(Get(d, "id", None))
             IN  [list |-> TodoList(d["name"], d["color"], Get(d, "id", None),
                                    got.items, Uuid(got.n + 1)),
                  n |-> IF draws THEN got.n + 1 ELSE got.n]

(***************************************************************************)
(* AppSettings                                                             *)
(***************************************************************************)
\* AppSettings.__init__; `window_position or (100, 100)` replaces None and
\* the empty tuple, both written <<>>.
AppSettings(clipboard_enabled, window_position, last_list_id, window_visible) ==
    [clipboard_enabled |-> clipboard_enabled,
     window_position |-> IF window_position = <<>> THEN <<100, 100>> ELSE window_position,
     last_list_id |-> last_list_id,
     window_visible |-> window_visible]

DefaultSettings == AppSettings(FALSE, <<>>, None, TRUE)

SettingsToDict(st) ==
    [clipboard_enabled |-> st.clipboard_enabled,
     window_position |-> PyList(st.window_position),
     last_list_id |-> st.last_list_id,
     window_visible |-> st.window_visible]

SettingsFromDict(d) ==
    AppSettings(Get(d, "clipboard_enabled", FALSE),
                PyTuple(Get(d, "window_position", PyList(<<100, 100>>))),
                Get(d, "last_list_id", None),
                Get(d, "window_visible", TRUE))

(***************************************************************************)
(* DataManager                                                             *)
(***************************************************************************)
\* get_all_lists without the test of the clipboard_enabled flag.
AllLists_IgnoresFlag(ls, cl, st) ==
    IF cl # NoList THEN Append(ls, cl) ELSE ls

\* DataManager.get_all_lists on the given fields.
AllLists(ls, cl, st) ==
    IF cl # NoList /\ st.clipboard_enabled THEN Append(ls, cl) ELSE ls

get_all_lists == AllLists(lists, clipboard_list, settings)

\* DataManager.get_list
get_list(list_id) ==
    IF list_id = CLIPBOARD_LIST_ID THEN clipboard_list
    ELSE LET hits == SelectSeq(lists, LAMBDA l : l.id = list_id)
         IN  IF hits = <<>> THEN NoList ELSE Head(hits)

\* save() without the test of the clipboard_enabled flag.
SaveData_IgnoresFlag(st, ls, cl) ==
    LET all_lists == IF cl # NoList THEN Append(ls, cl) ELSE ls
    IN  [settings |-> SettingsToDict(st),
         lists |-> [i \in DOMAIN all_lists |-> ListToDict(all_lists[i])]]

\* The `data` dict DataManager.save builds.
SaveData(st, ls, cl) ==
    LET all_lists == IF cl # NoList /\ st.clipboard_enabled THEN Append(ls, cl) ELSE ls
    IN  [settings |-> SettingsToDict(st),
         lists |-> [i \in DOMAIN all_lists |-> ListToDict(all_lists[i])]]

\* What the io outcomes of open(..., 'w') and json.dump leave on disk:
\* open() failing leaves the file alone; once it is open the file is
\* truncated, and a failing write leaves it empty or cut short.
IOOutcomes == {"ok", "open_fails", "write_fails"}

Written(io, data, old) ==
    CASE io = "ok" -> Json(data)
      [] io = "open_fails" -> old
      [] io = "write_fails" -> Corrupt

\* The ClipBoard list enable_clipboard and load synthesize.
NewClipboardList == TodoList("ClipBoard", "#808080", CLIPBOARD_LIST_ID, <<>>, None)

\* The loop of load() without the test against CLIPBOARD_LIST_ID.
RECURSIVE LoadLists_NoFilter(_, _, _, _)
LoadLists_NoFilter(ds, acc, n, clock) ==
    IF Len(ds) = 0 THEN [lists |-> acc, n |-> n, raised |-> FALSE]
    ELSE IF ~Has(Head(ds), "id") THEN [lists |-> acc, n |-> n, raised |-> TRUE]
    ELSE LET got == ListFromDict(Head(ds), n, clock)
         IN  IF got = KeyError THEN [lists |-> acc, n |-> n, raised |-> TRUE]
             ELSE LoadLists_NoFilter(Tail(ds), Append(acc, got.list), got.n, clock)

\* The loop of load() over data["lists"]: list_data["id"] and from_dict
\* raise KeyError, and the lists appended before that stay in self.lists.
\* (uuid4() values drawn for a record that then fails are not counted.)
RECURSIVE LoadLists(_, _, _, _)
LoadLists(ds, acc, n, clock) ==
    IF Len(ds) = 0 THEN [lists |-> acc, n |-> n, raised |-> FALSE]
    ELSE IF ~Has(Head(ds), "id") THEN [lists |-> acc, n |-> n, raised |-> TRUE]
    ELSE IF Head(ds)["id"] = CLIPBOARD_LIST_ID THEN LoadLists(Tail(ds), acc, n, clock)
    ELSE LET got == ListFromDict(Head(ds), n, clock)
         IN  IF got = KeyError THEN [lists |-> acc, n |-> n, raised |-> TRUE]
             ELSE LoadLists(Tail(ds), Append(acc, got.list), got.n, clock)

\* The lookup of load() taking the last record with the reserved id.
ClipboardData_Last(ds) ==
    LET hits == SelectSeq(ds, LAMBDA l : l["id"] = CLIPBOARD_LIST_ID)
    IN  IF Len(hits) = 0 THEN EmptyDict ELSE hits[Len(hits)]

\* next((l for l in data["lists"] if l["id"] == CLIPBOARD_LIST_ID), None)
ClipboardData(ds) ==
    LET hits == SelectSeq(ds, LAMBDA l : l["id"] = CLIPBOARD_LIST_ID)
    IN  IF Len(hits) = 0 THEN EmptyDict ELSE Head(hits)

\* DataManager.load on a store holding (st, ls, cl): the fields afterwards,
\* the uuid4() count and whether an exception was caught.
LoadStore(file, st, ls, cl, n, clock) ==
    LET same == [settings |-> st, lists |-> ls, clipboard_list |-> cl, n |-> n]
    IN
    IF file = NoFile THEN same @@ [raised |-> FALSE]
    ELSE IF file = Corrupt THEN same @@ [raised |-> TRUE]
    ELSE
    LET data == file.data
        st1 == SettingsFromDict(Get(data, "settings", EmptyDict))
        ds == Get(data, "lists", <<>>)
        r == LoadLists(ds, <<>>, n, clock)
        found == ClipboardData(ds)
        got == ListFromDict(found, r.n, clock)
    IN  IF r.raised
            THEN [settings |-> st1, lists |-> r.lists, clipboard_list |-> cl,
                  n |-> r.n, raised |-> TRUE]
        ELSE IF ~st1.clipboard_enabled
            THEN [settings |-> st1, lists |-> r.lists, clipboard_list |-> cl,
                  n |-> r.n, raised |-> FALSE]
        ELSE IF found = EmptyDict
            THEN [settings |-> st1, lists |-> r.lists, clipboard_list |-> NewClipboardList,
                  n |-> r.n, raised |-> FALSE]
        ELSE IF got = KeyError
            THEN [settings |-> st1, lists |-> r.lists, clipboard_list |-> cl,
                  n |-> r.n, raised |-> TRUE]
        ELSE [settings |-> st1, lists |-> r.lists, clipboard_list |-> got.list,
              n |-> got.n, raised |-> FALSE]

(***************************************************************************)
(* Inputs.                                                                 *)
(***************************************************************************)
Texts == {<<>>, <<" ">>, <<"a">>, <<"b">>, <<" ", "a">>}
ItemTexts == {<<"a">>, <<"b">>}

\* Item records as a data file may hold them: complete, and with optional
\* or required fields missing.
ItemDicts ==
    { [id |-> "i1", text |-> <<"a">>, created_at |-> 1, modified_at |-> 2,
       validated_at |-> 2, is_validated |-> TRUE],
      [id |-> "i2", text |-> <<"b">>, created_at |-> 1, modified_at |-> 1,
       validated_at |-> NoTime, is_validated |-> FALSE],
      [text |-> <<"a">>],
      [id |-> "i1", text |-> <<"a">>, created_at |-> 1],
      [text |-> <<"a">>, is_validated |-> TRUE],
      [id |-> "i2", text |-> <<"b">>, validated_at |-> 1],
      [id |-> "i1", created_at |-> 1] }

\* List records as a data file may hold them.
FullItem == [id |-> "i1", text |-> <<"a">>, created_at |-> 1, modified_at |-> 2, validated_at |-> 2, is_validated |-> TRUE]
BareItem == [text |-> <<"b">>]
ListA == [id |-> "f1", name |-> "A", color |-> "#FF0000", items |-> <<FullItem, BareItem>>]
ListB == [id |-> "f2", name |-> "B", color |-> "#00FF00"]
ListClip == [id |-> CLIPBOARD_LIST_ID, name |-> "ClipBoard", color |-> "#808080", items |-> <<[id |-> "i2", text |-> <<"a">>, created_at |-> 1]>>]
ListClip2 == [id |-> CLIPBOARD_LIST_ID, name |-> "Clip2", color |-> "#0000FF", items |-> <<>>]
ListNoId == [name |-> "N", color |-> "#111111", items |-> <<[text |-> <<"a">>, is_validated |-> TRUE]>>]
ListNoName == [id |-> "f3", color |-> "#222222"]
ListBadItem == [id |-> "f4", name |-> "D", color |-> "#333333", items |-> <<BareItem, [id |-> "i1", created_at |-> 1]>>]

ListDicts == {ListA, ListB, ListClip, ListClip2, ListNoId, ListNoName, ListBadItem}

\* Settings records as a data file may hold them.
SettingsOn == [clipboard_enabled |-> TRUE, window_position |-> PyList(<<5, 7>>), last_list_id |-> "f1", window_visible |-> FALSE]
SettingsOff == [window_position |-> PyList(<<>>), last_list_id |-> None]
SettingsDicts == {SettingsOn, SettingsOff}

\* The "lists" arrays of a data file: no record, one record, and arrays
\* with the reserved id or a defective record at each position.
FileLists ==
    {<<>>} \cup {<<a>> : a \in ListDicts}
    \cup {<<ListA, b>> : b \in ListDicts} \cup {<<b, ListA>> : b \in ListDicts}
    \cup {<<ListClip, ListClip2>>, <<ListClip2, ListClip>>, <<ListClip, ListNoName>>,
           <<ListA, ListClip, ListClip2>>, <<ListA, ListB, ListNoId>>}

\* The data file found at startup.
InitialFiles ==
    {NoFile, Corrupt, Json(EmptyDict), Json([settings |-> SettingsOn]), Json([lists |-> <<ListA>>])}
    \cup {Json([settings |-> st, lists |-> ls]) : st \in SettingsDicts, ls \in FileLists}

(***************************************************************************)
(* The clock and the entity-level operations on one ListItem.              *)
(***************************************************************************)
storeVars ==
    <<settings, lists, clipboard_list, data_file, io_failures, last_text, current_list,
      settings_shown>>

Tick ==
    /\ now < MaxTime
    /\ now' = now + 1
    /\ op' = [name |-> "tick"]
    /\ UNCHANGED <<storeVars, nextId, item, todo, hist, pre>>

ItemCreate(text) ==
    /\ nextId < MaxIds
    /\ item' = NewItem(text, Uuid(nextId + 1), now)
    /\ nextId' = nextId + 1
    /\ op' = [name |-> "create"]
    /\ pre' = item
    /\ UNCHANGED <<storeVars, now, todo, hist>>

ItemUpdateText(text) ==
    /\ item # NoItem
    /\ item' = update_text(item, text, now)
    /\ op' = [name |-> "update_text"]
    /\ pre' = item
    /\ UNCHANGED <<storeVars, now, nextId, todo, hist>>

ItemValidate ==
    /\ item # NoItem
    /\ item' = validate(item, now)
    /\ op' = [name |-> "validate"]
    /\ pre' = item
    /\ UNCHANGED <<storeVars, now, nextId, todo, hist>>

ItemUnvalidate ==
    /\ item # NoItem
    /\ item' = unvalidate(item)
    /\ op' = [name |-> "unvalidate"]
    /\ pre' = item
    /\ UNCHANGED <<storeVars, now, nextId, todo, hist>>

\* item = ListItem.from_dict(d); a KeyError leaves no new item.
ItemDeserialize(d) ==
    LET got == ItemFromDict(d, Uuid(nextId + 1), now)
    IN  /\ ItemDrawsId(d) => nextId < MaxIds
        /\ item' = IF got = KeyError THEN item ELSE got
        /\ nextId' = IF got # KeyError /\ ItemDrawsId(d) THEN nextId + 1 ELSE nextId
        /\ op' = [name |-> "from_dict", raised |-> got = KeyError, had_id |-> Has(d, "id")]
        /\ pre' = item
        /\ UNCHANGED <<storeVars, now, todo, hist>>

\* item = ListItem.from_dict(item.to_dict())
ItemRoundTrip ==
    /\ item # NoItem
    /\ item' = ItemFromDict(ItemToDict(item), Uuid(nextId + 1), now)
    /\ op' = [name |-> "roundtrip"]
    /\ pre' = item
    /\ UNCHANGED <<storeVars, now, nextId, todo, hist>>

\* A DataManager just constructed, no clipboard manager event yet, no file.
IdleStore ==
    /\ settings = DefaultSettings
    /\ lists = <<>>
    /\ clipboard_list = NoList
    /\ data_file = NoFile
    /\ io_failures = 0
    /\ last_text = <<>>
    /\ current_list = NoList
    /\ settings_shown = FALSE

InitItem ==
    /\ IdleStore
    /\ now = 1
    /\ nextId = 0
    /\ item = NoItem
    /\ todo = NoList
    /\ hist = <<>>
    /\ op = [name |-> "init", saved |-> FALSE, before |-> NoList]
    /\ pre = NoItem

NextItem ==
    \/ Tick
    \/ \E text \in ItemTexts : ItemCreate(text)
    \/ \E text \in ItemTexts : ItemUpdateText(text)
    \/ ItemValidate
    \/ ItemUnvalidate
    \/ \E d \in ItemDicts : ItemDeserialize(d)
    \/ ItemRoundTrip

SpecItem == InitItem /\ [][NextItem]_vars

(***************************************************************************)
(* The entity-level operations on one TodoList.                            *)
(***************************************************************************)
ListCreate(name, color) ==
    /\ todo = NoList
    /\ nextId < MaxIds
    /\ todo' = TodoList(name, color, None, <<>>, Uuid(nextId + 1))
    /\ nextId' = nextId + 1
    /\ op' = [name |-> "create_list"]
    /\ UNCHANGED <<storeVars, now, item, hist, pre>>

\* todo = TodoList.from_dict(d); a KeyError leaves no new list.
ListDeserialize(d) ==
    LET got == ListFromDict(d, nextId, now)
    IN  /\ todo = NoList
        /\ todo' = IF got = KeyError THEN todo ELSE got.list
        /\ nextId' = IF got = KeyError THEN nextId ELSE got.n
        /\ op' = [name |-> "list_from_dict", raised |-> got = KeyError]
        /\ UNCHANGED <<storeVars, now, item, hist, pre>>

ListAddItem(text) ==
    /\ todo # NoList
    /\ Len(todo.items) < MaxItems
    /\ nextId < MaxIds
    /\ todo' = add_item(todo, text, Uuid(nextId + 1), now)
    /\ nextId' = nextId + 1
    /\ op' = [name |-> "add_item", returned |-> NewItem(text, Uuid(nextId + 1), now)]
    /\ UNCHANGED <<storeVars, now, item, hist, pre>>

ListRemoveItem(item_id) ==
    /\ todo # NoList
    /\ todo' = remove_item(todo, item_id)
    /\ op' = [name |-> "remove_item", item_id |-> item_id,
              present |-> get_item(todo, item_id) # NoItem]
    /\ UNCHANGED <<storeVars, now, nextId, item, hist, pre>>

\* todo.get_item(id).validate() / .unvalidate() / .update_text(text)
ListItemValidate(i) ==
    /\ todo # NoList
    /\ i \in DOMAIN todo.items
    /\ todo' = [todo EXCEPT !.items[i] = validate(@, now)]
    /\ op' = [name |-> "validate_in_list"]
    /\ UNCHANGED <<storeVars, now, nextId, item, hist, pre>>

ListItemUnvalidate(i) ==
    /\ todo # NoList
    /\ i \in DOMAIN todo.items
    /\ todo' = [todo EXCEPT !.items[i] = unvalidate(@)]
    /\ op' = [name |-> "unvalidate_in_list"]
    /\ UNCHANGED <<storeVars, now, nextId, item, hist, pre>>

ListItemUpdateText(i, text) ==
    /\ todo # NoList
    /\ i \in DOMAIN todo.items
    /\ todo' = [todo EXCEPT !.items[i] = update_text(@, text, now)]
    /\ op' = [name |-> "update_in_list"]
    /\ UNCHANGED <<storeVars, now, nextId, item, hist, pre>>

\* todo = TodoList.from_dict(todo.to_dict()), every item of it going
\* through ListItem.to_dict and ListItem.from_dict.
ListRoundTrip ==
    LET got == ListFromDict(ListToDict(todo), nextId, now)
    IN  /\ todo # NoList
        /\ todo' = IF got = KeyError THEN todo ELSE got.list
        /\ nextId' = IF got = KeyError THEN nextId ELSE got.n
        /\ op' = [name |-> "list_roundtrip", raised |-> got = KeyError, before |-> todo]
        /\ UNCHANGED <<storeVars, now, item, hist, pre>>

\* The ids of the list's items, and one id no item has.
RemovableIds(l) ==
    IF l = NoList THEN {} ELSE {l.items[i].id : i \in DOMAIN l.items} \cup {"absent"}

InitList == InitItem

NextList ==
    \/ Tick
    \/ \E name \in {"Work"}, color \in {"#FF0000"} : ListCreate(name, color)
    \/ \E d \in ListDicts : ListDeserialize(d)
    \/ \E text \in {<<"b">>} : ListAddItem(text)
    \/ \E id \in RemovableIds(todo) : ListRemoveItem(id)
    \/ \E i \in 1..MaxItems : ListItemValidate(i)
    \/ ListItemUnvalidate(1)
    \/ ListItemUpdateText(1, <<"a">>)
    \/ ListRoundTrip

SpecList == InitList /\ [][NextList]_vars

(***************************************************************************)
(* The DataManager operations, as the application calls them.              *)
(***************************************************************************)
\* DataManager.save with the fields (st, ls, cl) the calling operation has
\* set; every exception is caught and printed.
Save(io, st, ls, cl) ==
    /\ io # "ok" => io_failures < MaxFailures
    /\ data_file' = Written(io, SaveData(st, ls, cl), data_file)
    /\ io_failures' = IF io = "ok" THEN io_failures ELSE io_failures + 1

\* What op records of an operation that saves: its io outcome and, when the
\* save failed, the file content before it.
Saved(nm, io) ==
    [name |-> nm, io |-> io, old |-> IF io = "ok" THEN NoFile ELSE data_file]

Running == op.name # "init"

\* DeskFriendApp.__init__: DataManager() followed by load().
Load ==
    LET r == LoadStore(data_file, settings, lists, clipboard_list, nextId, now)
    IN  /\ op.name = "init"
        /\ settings' = r.settings
        /\ lists' = r.lists
        /\ clipboard_list' = r.clipboard_list
        /\ nextId' = r.n
        /\ op' = [name |-> "load", raised |-> r.raised, restart |-> op.saved,
                  before |-> op.before]
        /\ UNCHANGED <<data_file, io_failures, last_text, current_list, now, item, todo, hist, pre, settings_shown>>

AddList(name, color, io) ==
    /\ Running
    /\ Len(lists) < MaxLists
    /\ nextId < MaxIds
    /\ lists' = Append(lists, TodoList(name, color, None, <<>>, Uuid(nextId + 1)))
    /\ nextId' = nextId + 1
    /\ UNCHANGED <<settings, clipboard_list>>
    /\ Save(io, settings, lists', clipboard_list)
    /\ op' = Saved("add_list", io)
    /\ UNCHANGED <<last_text, current_list, now, item, todo, hist, pre, settings_shown>>

\* remove_list dropping every list from the one with the id on.
RemoveList_Tail(list_id, io) ==
    /\ Running
    /\ lists' = IF \E i \in DOMAIN lists : lists[i].id = list_id
                    THEN SubSeq(lists, 1, (CHOOSE i \in DOMAIN lists : lists[i].id = list_id) - 1)
                    ELSE lists
    /\ UNCHANGED <<settings, clipboard_list>>
    /\ Save(io, settings, lists', clipboard_list)
    /\ op' = Saved("remove_list", io) @@ [list_id |-> list_id]
    /\ UNCHANGED <<last_text, current_list, now, nextId, item, todo, hist, pre, settings_shown>>

RemoveList(list_id, io) ==
    /\ Running
    /\ lists' = SelectSeq(lists, LAMBDA l : l.id # list_id)
    /\ UNCHANGED <<settings, clipboard_list>>
    /\ Save(io, settings, lists', clipboard_list)
    /\ op' = Saved("remove_list", io) @@ [list_id |-> list_id]
    /\ UNCHANGED <<last_text, current_list, now, nextId, item, todo, hist, pre, settings_shown>>

EnableClipboard(io) ==
    /\ Running
    /\ settings' = [settings EXCEPT !.clipboard_enabled = TRUE]
    /\ clipboard_list' = IF clipboard_list = NoList THEN NewClipboardList ELSE clipboard_list
    /\ UNCHANGED lists
    /\ Save(io, settings', lists, clipboard_list')
    /\ op' = Saved("enable_clipboard", io)
    /\ UNCHANGED <<last_text, current_list, now, nextId, item, todo, hist, pre, settings_shown>>

\* disable_clipboard that also forgets the clipboard list.
DisableClipboard_Forgets(io) ==
    /\ Running
    /\ settings' = [settings EXCEPT !.clipboard_enabled = FALSE]
    /\ clipboard_list' = NoList
    /\ UNCHANGED lists
    /\ Save(io, settings', lists, clipboard_list')
    /\ op' = Saved("disable_clipboard", io)
    /\ UNCHANGED <<last_text, current_list, now, nextId, item, todo, hist, pre, settings_shown>>

DisableClipboard(io) ==
    /\ Running
    /\ settings' = [settings EXCEPT !.clipboard_enabled = FALSE]
    /\ UNCHANGED <<lists, clipboard_list>>
    /\ Save(io, settings', lists, clipboard_list)
    /\ op' = Saved("disable_clipboard", io)
    /\ UNCHANGED <<last_text, current_list, now, nextId, item, todo, hist, pre, settings_shown>>

\* A caller of DataManager.save() that changed no field.
SaveStore(io) ==
    /\ Running
    /\ UNCHANGED <<settings, lists, clipboard_list>>
    /\ Save(io, settings, lists, clipboard_list)
    /\ op' = Saved("save", io)
    /\ UNCHANGED <<last_text, current_list, now, nextId, item, todo, hist, pre, settings_shown>>

\* A caller reading DataManager.get_all_lists().
GetAllLists ==
    /\ Running
    /\ op' = [name |-> "get_all_lists", returned |-> get_all_lists,
              before |-> <<settings, lists, clipboard_list, data_file>>]
    /\ UNCHANGED <<storeVars, now, nextId, item, todo, hist, pre>>

\* lists[i].add_item(text) followed by save(), as the list window does for
\* the list it shows.
AddItem(i, text, io) ==
    /\ Running
    /\ i \in DOMAIN lists
    /\ Len(lists[i].items) < MaxItems
    /\ nextId < MaxIds
    /\ lists' = [lists EXCEPT ![i] = add_item(@, text, Uuid(nextId + 1), now)]
    /\ nextId' = nextId + 1
    /\ UNCHANGED <<settings, clipboard_list>>
    /\ Save(io, settings, lists', clipboard_list)
    /\ op' = Saved("add_item", io)
    /\ UNCHANGED <<last_text, current_list, now, item, todo, hist, pre, settings_shown>>

\* lists[i].items[j].validate() followed by save().
ValidateItem(i, j, io) ==
    /\ Running
    /\ i \in DOMAIN lists
    /\ j \in DOMAIN lists[i].items
    /\ ~lists[i].items[j].is_validated
    /\ lists' = [lists EXCEPT ![i].items[j] = validate(@, now)]
    /\ UNCHANGED <<settings, clipboard_list>>
    /\ Save(io, settings, lists', clipboard_list)
    /\ op' = Saved("validate_item", io)
    /\ UNCHANGED <<last_text, current_list, now, nextId, item, todo, hist, pre, settings_shown>>

\* DeskFriendApp.quit_app: save() and the end of the process; the next
\* launch constructs a new DataManager, ClipboardManager and ListWindow.
Quit(io) ==
    /\ Running
    /\ Save(io, settings, lists, clipboard_list)
    /\ settings' = DefaultSettings
    /\ lists' = <<>>
    /\ clipboard_list' = NoList
    /\ last_text' = <<>>
    /\ current_list' = NoList
    /\ op' = [name |-> "init", saved |-> io = "ok",
              before |-> [settings |-> settings, all |-> get_all_lists]]
    /\ UNCHANGED <<now, nextId, item, todo, hist, pre, settings_shown>>

\* The ids a list may have, the reserved id and an id no list has.
ListIds ==
    {"f1", "f2", "f4", CLIPBOARD_LIST_ID, "absent"} \cup {Uuid(n) : n \in 1..MaxIds}

Init ==
    /\ settings = DefaultSettings
    /\ lists = <<>>
    /\ clipboard_list = NoList
    /\ data_file \in InitialFiles
    /\ io_failures = 0
    /\ last_text = <<>>
    /\ current_list = NoList
    /\ now = 1
    /\ nextId = 0
    /\ item = NoItem
    /\ todo = NoList
    /\ hist = <<>>
    /\ op = [name |-> "init", saved |-> FALSE, before |-> NoList]
    /\ pre = NoItem
    /\ settings_shown = FALSE

\* The data manager with every write to the data file succeeding; the
\* operations of one run all read the same clock value.
Next ==
    \/ Load
    \/ AddList("Liste", "#FF5733", "ok")
    \/ \E id \in ListIds : RemoveList(id, "ok")
    \/ EnableClipboard("ok")
    \/ DisableClipboard("ok")
    \/ GetAllLists
    \/ \E i \in 1..MaxLists : AddItem(i, <<"b">>, "ok")
    \/ \E i \in 1..MaxLists, j \in 1..MaxItems : ValidateItem(i, j, "ok")
    \/ Quit("ok")

Spec == Init /\ [][Next]_vars

(***************************************************************************)
(* ClipboardManager and the list-window handlers on the clipboard list.    *)
(***************************************************************************)
\* on_clipboard_changed comparing the text with last_text only, without
\* the scan of the list's items.
on_clipboard_changed_NoScan(text, st, cl, last) ==
    IF ~st.clipboard_enabled \/ cl = NoList
        THEN [last_text |-> last, append |-> FALSE, ignored |-> TRUE]
    ELSE IF text = <<>> \/ text = last \/ Strip(text) = <<>>
        THEN [last_text |-> last, append |-> FALSE, ignored |-> TRUE]
    ELSE [last_text |-> text, append |-> TRUE, ignored |-> FALSE]

\* on_clipboard_changed without the test for whitespace-only text.
on_clipboard_changed_NoStrip(text, st, cl, last) ==
    IF ~st.clipboard_enabled \/ cl = NoList
        THEN [last_text |-> last, append |-> FALSE, ignored |-> TRUE]
    ELSE IF text = <<>> \/ text = last
        THEN [last_text |-> last, append |-> FALSE, ignored |-> TRUE]
    ELSE IF \E i \in DOMAIN cl.items : cl.items[i].text = text
        THEN [last_text |-> text, append |-> FALSE, ignored |-> FALSE]
    ELSE [last_text |-> text, append |-> TRUE, ignored |-> FALSE]

\* on_clipboard_changed recording last_text only when it appends.
on_clipboard_changed_LateLast(text, st, cl, last) ==
    IF ~st.clipboard_enabled \/ cl = NoList
        THEN [last_text |-> last, append |-> FALSE, ignored |-> TRUE]
    ELSE IF text = <<>> \/ text = last
        THEN [last_text |-> last, append |-> FALSE, ignored |-> TRUE]
    ELSE IF Strip(text) = <<>>
        THEN [last_text |-> last, append |-> FALSE, ignored |-> TRUE]
    ELSE IF \E i \in DOMAIN cl.items : cl.items[i].text = text
        THEN [last_text |-> last, append |-> FALSE, ignored |-> FALSE]
    ELSE [last_text |-> text, append |-> TRUE, ignored |-> FALSE]

\* on_clipboard_changed recording last_text before the whitespace test.
on_clipboard_changed_EarlyLast(text, st, cl, last) ==
    IF ~st.clipboard_enabled \/ cl = NoList
        THEN [last_text |-> last, append |-> FALSE, ignored |-> TRUE]
    ELSE IF text = <<>> \/ text = last
        THEN [last_text |-> last, append |-> FALSE, ignored |-> TRUE]
    ELSE IF Strip(text) = <<>>
        THEN [last_text |-> text, append |-> FALSE, ignored |-> TRUE]
    ELSE IF \E i \in DOMAIN cl.items : cl.items[i].text = text
        THEN [last_text |-> text, append |-> FALSE, ignored |-> FALSE]
    ELSE [last_text |-> text, append |-> TRUE, ignored |-> FALSE]

\* The decisions of ClipboardManager.on_clipboard_changed for the clipboard
\* text `text`: the new last_text, whether an item is appended (and saved,
\* and clipboard_changed emitted), whether the notification was ignored
\* before last_text was touched.
on_clipboard_changed(text, st, cl, last) ==
    IF ~st.clipboard_enabled \/ cl = NoList
        THEN [last_text |-> last, append |-> FALSE, ignored |-> TRUE]
    ELSE IF text = <<>> \/ text = last
        THEN [last_text |-> last, append |-> FALSE, ignored |-> TRUE]
    ELSE IF Strip(text) = <<>>
        THEN [last_text |-> last, append |-> FALSE, ignored |-> TRUE]
    ELSE IF \E i \in DOMAIN cl.items : cl.items[i].text = text
        THEN [last_text |-> text, append |-> FALSE, ignored |-> FALSE]
    ELSE [last_text |-> text, append |-> TRUE, ignored |-> FALSE]

\* The handler emitting clipboard_changed before add_item's save.
OnClipboardChanged_EmitFirst(text, io) ==
    LET r == on_clipboard_changed(text, settings, clipboard_list, last_text)
    IN  /\ Running
        /\ r.append => nextId < MaxIds
        /\ last_text' = r.last_text
        /\ clipboard_list' = IF r.append
                                THEN add_item(clipboard_list, text, Uuid(nextId + 1), now)
                                ELSE clipboard_list
        /\ nextId' = IF r.append THEN nextId + 1 ELSE nextId
        /\ IF r.append
              THEN /\ Save(io, settings, lists, clipboard_list')
                   /\ op' = Saved("clipboard_changed", io) @@
                            [text |-> text, ignored |-> FALSE, emitted |-> TRUE,
                             at_emit |-> data_file]
              ELSE /\ io = "ok"
                   /\ UNCHANGED <<data_file, io_failures>>
                   /\ op' = [name |-> "clipboard_changed", text |-> text,
                             ignored |-> r.ignored, emitted |-> FALSE]
        /\ UNCHANGED <<settings, lists, current_list, now, item, todo, pre, settings_shown>>

\* The clipboard notifies the manager while its text is `text`.
OnClipboardChanged(text, io) ==
    LET r == on_clipboard_changed(text, settings, clipboard_list, last_text)
    IN  /\ Running
        /\ r.append => nextId < MaxIds
        /\ last_text' = r.last_text
        /\ clipboard_list' = IF r.append
                                THEN add_item(clipboard_list, text, Uuid(nextId + 1), now)
                                ELSE clipboard_list
        /\ nextId' = IF r.append THEN nextId + 1 ELSE nextId
        /\ IF r.append
              THEN /\ Save(io, settings, lists, clipboard_list')
                   /\ op' = Saved("clipboard_changed", io) @@
                            [text |-> text, ignored |-> FALSE, emitted |-> TRUE,
                             at_emit |-> data_file']
              ELSE /\ io = "ok"
                   /\ UNCHANGED <<data_file, io_failures>>
                   /\ op' = [name |-> "clipboard_changed", text |-> text,
                             ignored |-> r.ignored, emitted |-> FALSE]
        /\ UNCHANGED <<settings, lists, current_list, now, item, todo, pre, settings_shown>>

\* What ListWindow.current_list refers to: the clipboard list object or the
\* element of `lists` with the given id.
CurrentRef(list_id) ==
    IF list_id = CLIPBOARD_LIST_ID THEN [ref |-> "clipboard"]
    ELSE [ref |-> "lists", id |-> list_id]

\* ListWindow.on_list_selected for an entry of the selector, which holds
\* the ids of get_all_lists(), and set_current_list.
OnListSelected(list_id, io) ==
    /\ Running
    /\ \E i \in DOMAIN get_all_lists : get_all_lists[i].id = list_id
    /\ get_list(list_id) # NoList
    /\ current_list' = CurrentRef(list_id)
    /\ settings' = [settings EXCEPT !.last_list_id = list_id]
    /\ UNCHANGED <<lists, clipboard_list>>
    /\ Save(io, settings', lists, clipboard_list)
    /\ op' = Saved("list_selected", io)
    /\ UNCHANGED <<last_text, now, nextId, item, todo, hist, pre, settings_shown>>

\* ListItemWidget.on_action_clicked on an item of the clipboard list shown
\* by the list window (is_clipboard_list), and ListWindow.on_item_deleted.
DeleteClipboardItem(i, io) ==
    /\ Running
    /\ current_list = CurrentRef(CLIPBOARD_LIST_ID)
    /\ clipboard_list # NoList
    /\ i \in DOMAIN clipboard_list.items
    /\ clipboard_list' = remove_item(clipboard_list, clipboard_list.items[i].id)
    /\ UNCHANGED <<settings, lists>>
    /\ Save(io, settings, lists, clipboard_list')
    /\ op' = Saved("item_deleted", io)
    /\ UNCHANGED <<last_text, current_list, now, nextId, item, todo, hist, pre, settings_shown>>

\* The store after a first launch without a data file and enable_clipboard.
InitClipboard ==
    /\ settings = [DefaultSettings EXCEPT !.clipboard_enabled = TRUE]
    /\ lists = <<>>
    /\ clipboard_list = NewClipboardList
    /\ data_file = Json(SaveData(settings, lists, clipboard_list))
    /\ io_failures = 0
    /\ last_text = <<>>
    /\ current_list = NoList
    /\ now = 1
    /\ nextId = 0
    /\ item = NoItem
    /\ todo = NoList
    /\ hist = <<>>
    /\ op = Saved("enable_clipboard", "ok")
    /\ pre = NoItem
    /\ settings_shown = FALSE

\* Clipboard notifications only, each recorded in hist.
Notify(text) ==
    /\ Len(hist) < MaxNotif
    /\ OnClipboardChanged(text, "ok")
    /\ hist' = Append(hist, text)

NextWatch ==
    \/ Tick
    \/ \E text \in Texts : Notify(text)

SpecWatch == InitClipboard /\ [][NextWatch]_vars

\* Clipboard notifications interleaved with deletions of clipboard items and
\* with enabling and disabling capture.
Capture(text) ==
    /\ OnClipboardChanged(text, "ok")
    /\ UNCHANGED hist

NextClipboard ==
    \/ Tick
    \/ \E text \in Texts : Capture(text)
    \/ OnListSelected(CLIPBOARD_LIST_ID, "ok")
    \/ \E i \in 1..MaxIds : DeleteClipboardItem(i, "ok")
    \/ EnableClipboard("ok")
    \/ DisableClipboard("ok")

SpecClipboard == InitClipboard /\ [][NextClipboard]_vars

\* The data manager with saves that may fail.
InitIO ==
    /\ Init
    /\ data_file \in {NoFile, Json([settings |-> SettingsOn, lists |-> <<ListA, ListClip>>])}

NextIO ==
    \/ Load
    \/ \E io \in IOOutcomes : AddList("Liste", "#FF5733", io)
    \/ \E id \in ListIds, io \in IOOutcomes : RemoveList(id, io)
    \/ \E io \in IOOutcomes : EnableClipboard(io)
    \/ \E io \in IOOutcomes : DisableClipboard(io)
    \/ \E io \in IOOutcomes : SaveStore(io)
    \/ \E io \in IOOutcomes : Quit(io)

SpecIO == InitIO /\ [][NextIO]_vars

(***************************************************************************)
(* SearchWindow: the search over get_all_lists().                          *)
(***************************************************************************)
\* str.lower() on a text.
LowerChar(c) == IF c = "A" THEN "a" ELSE IF c = "B" THEN "b" ELSE c
Lower(s) == [i \in DOMAIN s |-> LowerChar(s[i])]

\* `q in s` on texts.
Contains(q, s) == \E i \in 0..(Len(s) - Len(q)) : SubSeq(s, i + 1, i + Len(q)) = q

\* The reading t of the clock is the ISO string of day t of January 2024 at
\* midnight; strftime('%d/%m/%Y %H:%M:%S') of it.
Format(t) ==
    <<"0", ToString(t), "/", "0", "1", "/", "2", "0", "2", "4", " ",
      "0", "0", ":", "0", "0", ":", "0", "0">>

\* search_in_timestamp: fromisoformat(None) raises and the except clause
\* returns False.
search_in_timestamp(query, timestamp_str) ==
    IF timestamp_str = NoTime THEN FALSE
    ELSE Contains(query, Lower(Format(timestamp_str)))

\* The body of the loop of perform_search over one item, with the text
\* test only.
ItemMatch_TextOnly(query_lower, it) ==
    IF Contains(query_lower, Lower(it.text)) THEN "Texte" ELSE "none"

\* The body of the loop of perform_search over one item: the match type
\* given to add_result, or "none".
ItemMatch(query_lower, it) ==
    IF Contains(query_lower, Lower(it.text)) THEN "Texte"
    ELSE IF search_in_timestamp(query_lower, it.created_at) THEN "Date de creation"
    ELSE IF it.modified_at # it.created_at /\ search_in_timestamp(query_lower, it.modified_at)
        THEN "Date de modification"
    ELSE IF it.validated_at # NoTime /\ search_in_timestamp(query_lower, it.validated_at)
        THEN "Date de validation"
    ELSE "none"

\* The results added for the items of one list, in order.
RECURSIVE SearchItems(_, _, _)
SearchItems(query_lower, l, its) ==
    IF its = <<>> THEN <<>>
    ELSE LET m == ItemMatch(query_lower, Head(its))
             rest == SearchItems(query_lower, l, Tail(its))
         IN  IF m = "none" THEN rest
             ELSE <<[list_id |-> l.id, item_id |-> Head(its).id, match_type |-> m]>> \o rest

RECURSIVE SearchLists(_, _)
SearchLists(query_lower, ls) ==
    IF ls = <<>> THEN <<>>
    ELSE SearchItems(query_lower, Head(ls), Head(ls).items) \o SearchLists(query_lower, Tail(ls))

\* SearchWindow.perform_search: the content of results_list afterwards.
perform_search(query, all) ==
    IF Strip(query) = <<>> THEN <<>> ELSE SearchLists(Lower(query), all)

Queries ==
    {<<>>, <<" ">>, <<"a">>, <<"A">>, <<"B">>, <<"a", " ">>, <<" ", "a">>, <<"x">>,
     <<"2", "0", "2", "4">>, <<"0", "1", "/">>, <<"0", "2", "/">>, <<"4", " ", "0">>}

\* The text typed in the search field changed to `query`.
Search(query) ==
    /\ Running
    /\ op' = [name |-> "search", query |-> query,
              results |-> perform_search(query, get_all_lists)]
    /\ UNCHANGED <<storeVars, now, nextId, item, todo, hist, pre>>

SearchFiles ==
    {Json([settings |-> SettingsOn, lists |-> <<ListB, ListA, ListClip>>]),
     Json([settings |-> SettingsOff, lists |-> <<ListB, ListClip>>])}

InitSearch ==
    /\ settings = DefaultSettings
    /\ lists = <<>>
    /\ clipboard_list = NoList
    /\ data_file \in SearchFiles
    /\ io_failures = 0
    /\ last_text = <<>>
    /\ current_list = NoList
    /\ now = 1
    /\ nextId = 0
    /\ item = NoItem
    /\ todo = NoList
    /\ hist = <<>>
    /\ op = [name |-> "init", saved |-> FALSE, before |-> NoList]
    /\ pre = NoItem
    /\ settings_shown = FALSE

NextSearch ==
    \/ Load
    \/ Tick
    \/ AddItem(1, <<"A", "b">>, "ok")
    \/ \E i \in {1, 2} : ValidateItem(i, 1, "ok")
    \/ EnableClipboard("ok")
    \/ DisableClipboard("ok")
    \/ \E query \in Queries : Search(query)

SpecSearch == InitSearch /\ [][NextSearch]_vars

(***************************************************************************)
(* The application: list window, item widgets, settings dialog, tray.      *)
(***************************************************************************)
\* DataManager.get_list on the given fields.
GetList(ls, cl, list_id) ==
    IF list_id = CLIPBOARD_LIST_ID THEN cl
    ELSE LET hits == SelectSeq(ls, LAMBDA l : l.id = list_id)
         IN  IF hits = <<>> THEN NoList ELSE Head(hits)

\* The positions in `lists` of the list object the window shows; empty when
\* it shows the clipboard list, no list, or a list removed from `lists`.
ShownAt ==
    IF current_list # NoList /\ current_list.ref = "lists"
        THEN {i \in DOMAIN lists : lists[i].id = current_list.id}
        ELSE {}

ShowsClipboard == current_list # NoList /\ current_list.ref = "clipboard"

\* The list object the window shows, NoList when there is none or when the
\* object is no longer held by the store.
Shown ==
    IF ShowsClipboard THEN clipboard_list
    ELSE IF ShownAt # {} THEN lists[CHOOSE i \in ShownAt : TRUE]
    ELSE NoList

\* The store's lists with the shown list replaced by l.
ListsWith(l) == [i \in DOMAIN lists |-> IF i \in ShownAt THEN l ELSE lists[i]]
ClipboardWith(l) == IF ShowsClipboard THEN l ELSE clipboard_list

\* load_last_list showing the first list whatever last_list_id is.
Launch_FirstList ==
    \E r \in {LoadStore(data_file, settings, lists, clipboard_list, nextId, now)} :
    \E all \in {AllLists(r.lists, r.clipboard_list, r.settings)} :
    \E last \in {IF Falsy(r.settings.last_list_id) THEN NoList
                 ELSE GetList(r.lists, r.clipboard_list, r.settings.last_list_id)} :
    LET first == all[1]
    IN  /\ op.name = "init"
        /\ lists' = r.lists
        /\ clipboard_list' = r.clipboard_list
        /\ nextId' = r.n
        /\ settings_shown' = (r.lists = <<>>)
        /\ IF all = <<>>
              THEN /\ settings' = r.settings
                   /\ current_list' = NoList
                   /\ UNCHANGED <<data_file, io_failures>>
              ELSE /\ settings' = [r.settings EXCEPT !.last_list_id = first.id]
                   /\ current_list' = CurrentRef(first.id)
                   /\ Save("ok", settings', lists', clipboard_list')
        /\ op' = [name |-> "launch", raised |-> r.raised, restart |-> op.saved,
                  last |-> r.settings.last_list_id]
        /\ UNCHANGED <<last_text, now, item, todo, hist, pre>>

\* DeskFriendApp.__init__: DataManager().load(), the ListWindow constructor
\* with load_last_list (set_current_list saves), and show_settings when
\* there is no list.
Launch ==
    \E r \in {LoadStore(data_file, settings, lists, clipboard_list, nextId, now)} :
    \E all \in {AllLists(r.lists, r.clipboard_list, r.settings)} :
    \E last \in {IF Falsy(r.settings.last_list_id) THEN NoList
                 ELSE GetList(r.lists, r.clipboard_list, r.settings.last_list_id)} :
    LET first == IF last # NoList THEN last ELSE all[1]
    IN  /\ op.name = "init"
        /\ lists' = r.lists
        /\ clipboard_list' = r.clipboard_list
        /\ nextId' = r.n
        /\ settings_shown' = (r.lists = <<>>)
        /\ IF all = <<>>
              THEN /\ settings' = r.settings
                   /\ current_list' = NoList
                   /\ UNCHANGED <<data_file, io_failures>>
              ELSE /\ settings' = [r.settings EXCEPT !.last_list_id = first.id]
                   /\ current_list' = CurrentRef(first.id)
                   /\ Save("ok", settings', lists', clipboard_list')
        /\ op' = [name |-> "launch", raised |-> r.raised, restart |-> op.saved,
                  last |-> r.settings.last_list_id]
        /\ UNCHANGED <<last_text, now, item, todo, hist, pre>>

\* finish_adding_item without strip() of the typed text.
FinishAddingItem_NoStrip(typed) ==
    LET text == typed
        adds == text # <<>>
    IN  /\ Running /\ ~settings_shown
        /\ current_list # NoList /\ ~ShowsClipboard
        /\ (adds /\ Shown # NoList) => (Len(Shown.items) < MaxItems /\ nextId < MaxIds)
        /\ lists' = IF adds /\ Shown # NoList
                       THEN ListsWith(add_item(Shown, text, Uuid(nextId + 1), now))
                       ELSE lists
        /\ nextId' = IF adds /\ Shown # NoList THEN nextId + 1 ELSE nextId
        /\ UNCHANGED <<settings, clipboard_list>>
        /\ IF adds THEN Save("ok", settings, lists', clipboard_list)
                   ELSE UNCHANGED <<data_file, io_failures>>
        /\ op' = [name |-> "finish_adding", mutated |-> adds, text |-> text]
        /\ UNCHANGED <<last_text, current_list, settings_shown, now, item, todo, hist, pre>>

\* ListWindow.finish_adding_item with the text typed in the add field; the
\* add widget exists for a shown list other than the clipboard list.
FinishAddingItem(typed) ==
    LET text == Strip(typed)
        adds == text # <<>>
    IN  /\ Running /\ ~settings_shown
        /\ current_list # NoList /\ ~ShowsClipboard
        /\ (adds /\ Shown # NoList) => (Len(Shown.items) < MaxItems /\ nextId < MaxIds)
        /\ lists' = IF adds /\ Shown # NoList
                       THEN ListsWith(add_item(Shown, text, Uuid(nextId + 1), now))
                       ELSE lists
        /\ nextId' = IF adds /\ Shown # NoList THEN nextId + 1 ELSE nextId
        /\ UNCHANGED <<settings, clipboard_list>>
        /\ IF adds THEN Save("ok", settings, lists', clipboard_list)
                   ELSE UNCHANGED <<data_file, io_failures>>
        /\ op' = [name |-> "finish_adding", mutated |-> adds, text |-> text]
        /\ UNCHANGED <<last_text, current_list, settings_shown, now, item, todo, hist, pre>>

\* finish_editing unvalidating only an item whose text changed.
FinishEditing_UnvalidatesOnChange(j, typed) ==
    LET new_text == Strip(typed)
        it == Shown.items[j]
        changed == new_text # <<>> /\ new_text # it.text
        updated == IF changed THEN update_text(it, new_text, now) ELSE it
        final == IF changed /\ updated.is_validated THEN unvalidate(updated) ELSE updated
    IN  /\ Running /\ ~settings_shown
        /\ Shown # NoList
        /\ j \in DOMAIN Shown.items
        /\ UNCHANGED settings
        /\ IF changed
              THEN Save("ok", settings,
                        ListsWith([Shown EXCEPT !.items[j] = updated]),
                        ClipboardWith([Shown EXCEPT !.items[j] = updated]))
              ELSE UNCHANGED <<data_file, io_failures>>
        /\ lists' = ListsWith([Shown EXCEPT !.items[j] = final])
        /\ clipboard_list' = ClipboardWith([Shown EXCEPT !.items[j] = final])
        /\ op' = [name |-> "finish_editing", mutated |-> changed \/ it.is_validated,
                  text |-> new_text, index |-> j]
        /\ UNCHANGED <<last_text, current_list, settings_shown, now, nextId, item, todo, hist, pre>>

\* ListItemWidget.finish_editing on item j of the shown list after
\* start_editing, with ListWindow.on_item_updated run by the item_updated
\* signal: update_text and save() first, unvalidate afterwards.
FinishEditing(j, typed) ==
    LET new_text == Strip(typed)
        it == Shown.items[j]
        changed == new_text # <<>> /\ new_text # it.text
        updated == IF changed THEN update_text(it, new_text, now) ELSE it
        final == IF updated.is_validated THEN unvalidate(updated) ELSE updated
    IN  /\ Running /\ ~settings_shown
        /\ Shown # NoList
        /\ j \in DOMAIN Shown.items
        /\ UNCHANGED settings
        /\ IF changed
              THEN Save("ok", settings,
                        ListsWith([Shown EXCEPT !.items[j] = updated]),
                        ClipboardWith([Shown EXCEPT !.items[j] = updated]))
              ELSE UNCHANGED <<data_file, io_failures>>
        /\ lists' = ListsWith([Shown EXCEPT !.items[j] = final])
        /\ clipboard_list' = ClipboardWith([Shown EXCEPT !.items[j] = final])
        /\ op' = [name |-> "finish_editing", mutated |-> changed \/ it.is_validated,
                  text |-> new_text, index |-> j]
        /\ UNCHANGED <<last_text, current_list, settings_shown, now, nextId, item, todo, hist, pre>>

\* on_action_clicked without the is_clipboard_list case.
ActionClicked_ValidatedOnly(j) ==
    LET it == Shown.items[j]
        deletes == it.is_validated
        after == IF deletes THEN remove_item(Shown, it.id)
                 ELSE [Shown EXCEPT !.items[j] = validate(it, now)]
    IN  /\ Running /\ ~settings_shown
        /\ Shown # NoList
        /\ j \in DOMAIN Shown.items
        /\ lists' = ListsWith(after)
        /\ clipboard_list' = ClipboardWith(after)
        /\ UNCHANGED settings
        /\ Save("ok", settings, lists', clipboard_list')
        /\ op' = [name |-> IF deletes THEN "item_deleted" ELSE "item_validated",
                  mutated |-> TRUE, index |-> j]
        /\ UNCHANGED <<last_text, current_list, settings_shown, now, nextId, item, todo, hist, pre>>

\* ListItemWidget.on_action_clicked on item j of the shown list, with
\* ListWindow.on_item_deleted or on_item_validated run by its signal.
ActionClicked(j) ==
    LET it == Shown.items[j]
        deletes == ShowsClipboard \/ it.is_validated
        after == IF deletes THEN remove_item(Shown, it.id)
                 ELSE [Shown EXCEPT !.items[j] = validate(it, now)]
    IN  /\ Running /\ ~settings_shown
        /\ Shown # NoList
        /\ j \in DOMAIN Shown.items
        /\ lists' = ListsWith(after)
        /\ clipboard_list' = ClipboardWith(after)
        /\ UNCHANGED settings
        /\ Save("ok", settings, lists', clipboard_list')
        /\ op' = [name |-> IF deletes THEN "item_deleted" ELSE "item_validated",
                  mutated |-> TRUE, index |-> j]
        /\ UNCHANGED <<last_text, current_list, settings_shown, now, nextId, item, todo, hist, pre>>

\* A handler of the list window on a list object that remove_list took out
\* of the store: the object changes, the store does not, save() runs.
HandlerOnRemovedList ==
    /\ Running /\ ~settings_shown
    /\ current_list # NoList /\ Shown = NoList
    /\ UNCHANGED <<settings, lists, clipboard_list>>
    /\ Save("ok", settings, lists, clipboard_list)
    /\ op' = [name |-> "removed_list_handler", mutated |-> FALSE]
    /\ UNCHANGED <<last_text, current_list, settings_shown, now, nextId, item, todo, hist, pre>>

\* ListWindow.on_list_selected, the list window being usable.
SelectList(list_id) ==
    /\ ~settings_shown
    /\ OnListSelected(list_id, "ok")

\* DeskFriendApp.toggle_window_visibility (tray icon).
ToggleWindowVisibility ==
    /\ Running
    /\ settings' = [settings EXCEPT !.window_visible = ~@]
    /\ UNCHANGED <<lists, clipboard_list>>
    /\ Save("ok", settings', lists, clipboard_list)
    /\ op' = [name |-> "toggle_visibility", mutated |-> TRUE]
    /\ UNCHANGED <<last_text, current_list, settings_shown, now, nextId, item, todo, hist, pre>>

\* ListWindow.mouseReleaseEvent after a drag to position pos.
MoveWindow(pos) ==
    /\ Running /\ ~settings_shown
    /\ settings' = [settings EXCEPT !.window_position = pos]
    /\ UNCHANGED <<lists, clipboard_list>>
    /\ Save("ok", settings', lists, clipboard_list)
    /\ op' = [name |-> "move_window", mutated |-> TRUE]
    /\ UNCHANGED <<last_text, current_list, settings_shown, now, nextId, item, todo, hist, pre>>

\* DeskFriendApp.show_settings
ShowSettings ==
    /\ Running /\ ~settings_shown
    /\ settings_shown' = TRUE
    /\ op' = [name |-> "show_settings"]
    /\ UNCHANGED <<settings, lists, clipboard_list, data_file, io_failures, last_text,
                   current_list, now, nextId, item, todo, hist, pre>>

\* SettingsWindow.add_list and SettingsWindow.remove_list on an entry of
\* the dialog, which lists the ids of `lists`.
DialogAddList ==
    /\ settings_shown
    /\ AddList("Liste", "#FF5733", "ok")

DialogRemoveList(i) ==
    /\ settings_shown
    /\ i \in DOMAIN lists
    /\ RemoveList(lists[i].id, "ok")

\* SettingsWindow.rename_list with the name typed and
\* SettingsWindow.change_list_color with the color chosen.
DialogRenameList(i, typed) ==
    /\ Running /\ settings_shown
    /\ i \in DOMAIN lists
    /\ lists' = IF Strip(typed) # <<>> THEN [lists EXCEPT ![i].name = Strip(typed)] ELSE lists
    /\ UNCHANGED <<settings, clipboard_list>>
    /\ IF Strip(typed) # <<>> THEN Save("ok", settings, lists', clipboard_list)
                              ELSE UNCHANGED <<data_file, io_failures>>
    /\ op' = [name |-> "rename_list", mutated |-> Strip(typed) # <<>>]
    /\ UNCHANGED <<last_text, current_list, settings_shown, now, nextId, item, todo, hist, pre>>

DialogChangeColor(i, color) ==
    /\ Running /\ settings_shown
    /\ i \in DOMAIN lists
    /\ lists' = [lists EXCEPT ![i].color = color]
    /\ UNCHANGED <<settings, clipboard_list>>
    /\ Save("ok", settings, lists', clipboard_list)
    /\ op' = [name |-> "recolor_list", mutated |-> TRUE]
    /\ UNCHANGED <<last_text, current_list, settings_shown, now, nextId, item, todo, hist, pre>>

\* SettingsWindow.save_settings with the clipboard radio button at `active`
\* (enable_clipboard or disable_clipboard when it differs from the flag,
\* then save()), and DeskFriendApp.on_settings_changed run by its signal.
SaveSettings(active) ==
    LET st1 == [settings EXCEPT !.clipboard_enabled = active]
        cl1 == IF active /\ clipboard_list = NoList THEN NewClipboardList ELSE clipboard_list
        all == AllLists(lists, cl1, st1)
        kept == current_list # NoList
                /\ GetList(lists, cl1, IF current_list.ref = "clipboard"
                                          THEN CLIPBOARD_LIST_ID ELSE current_list.id) # NoList
        switch == ~kept /\ all # <<>>
    IN  /\ Running /\ settings_shown
        /\ settings_shown' = FALSE
        /\ clipboard_list' = cl1
        /\ UNCHANGED lists
        /\ settings' = IF switch THEN [st1 EXCEPT !.last_list_id = all[1].id] ELSE st1
        /\ current_list' = IF switch THEN CurrentRef(all[1].id) ELSE current_list
        /\ Save("ok", settings', lists, cl1)
        /\ op' = [name |-> "settings_saved", mutated |-> TRUE]
        /\ UNCHANGED <<last_text, now, nextId, item, todo, hist, pre>>

\* The Cancel button of the dialog (QDialog.reject).
CancelSettings ==
    /\ Running /\ settings_shown
    /\ settings_shown' = FALSE
    /\ op' = [name |-> "settings_cancelled"]
    /\ UNCHANGED <<settings, lists, clipboard_list, data_file, io_failures, last_text,
                   current_list, now, nextId, item, todo, hist, pre>>

UIFile == Json([settings |-> SettingsOn, lists |-> <<ListA, ListClip>>])

\* IdleStore but for the data file, which is absent or UIFile.
InitUI ==
    /\ settings = DefaultSettings
    /\ lists = <<>>
    /\ clipboard_list = NoList
    /\ data_file \in {NoFile, UIFile}
    /\ io_failures = 0
    /\ last_text = <<>>
    /\ current_list = NoList
    /\ settings_shown = FALSE
    /\ now = 1
    /\ nextId = 0
    /\ item = NoItem
    /\ todo = NoList
    /\ hist = <<>>
    /\ op = [name |-> "init", saved |-> FALSE, before |-> NoList]
    /\ pre = NoItem

\* The list window, its item widgets and the clipboard watcher in one
\* session started on UIFile; every write succeeds.
NextUI ==
    \/ Launch
    \/ \E typed \in {<<"b">>, <<" ">>} : FinishAddingItem(typed)
    \/ \E typed \in {<<"a">>, <<"b", " ">>} : FinishEditing(1, typed)
    \/ \E j \in {1, 2} : ActionClicked(j)
    \/ \E id \in {"f1", CLIPBOARD_LIST_ID} : SelectList(id)
    \/ Capture(<<"b">>)

InitUIFile == InitUI /\ data_file = UIFile
SpecUI == InitUIFile /\ [][NextUI]_vars

\* The list selector, the settings dialog, the tray and the moves of the
\* window over sessions started without a data file and on UIFile.
NextDialog ==
    \/ Launch
    \/ \E id \in ListIds : SelectList(id)
    \/ HandlerOnRemovedList
    \/ ToggleWindowVisibility
    \/ MoveWindow(<<0, 0>>)
    \/ ShowSettings
    \/ DialogAddList
    \/ \E i \in 1..MaxLists : DialogRemoveList(i)
    \/ \E typed \in {<<"W">>, <<" ">>} : DialogRenameList(1, typed)
    \/ DialogChangeColor(1, "#00FF00")
    \/ \E active \in BOOLEAN : SaveSettings(active)
    \/ CancelSettings
    \/ Quit("ok")

SpecDialog == InitUI /\ [][NextDialog]_vars

\* The list window adding items while lists are selected, created and
\* removed through the settings dialog.
NextWindows ==
    \/ Launch
    \/ \E id \in ListIds : SelectList(id)
    \/ \E typed \in {<<"b">>, <<" ">>} : FinishAddingItem(typed)
    \/ ShowSettings
    \/ DialogAddList
    \/ \E i \in 1..MaxLists : DialogRemoveList(i)
    \/ \E active \in BOOLEAN : SaveSettings(active)
    \/ CancelSettings

SpecWindows == InitUI /\ [][NextWindows]_vars

\* A session started without a data file: the first list is created in the
\* settings dialog, then items are added, edited, validated and captured.
InitEmpty == InitUI /\ data_file = NoFile

NextTexts ==
    \/ Launch
    \/ DialogAddList
    \/ \E active \in BOOLEAN : SaveSettings(active)
    \/ \E id \in {Uuid(1), CLIPBOARD_LIST_ID} : SelectList(id)
    \/ \E typed \in {<<"b">>, <<" ">>, <<>>} : FinishAddingItem(typed)
    \/ \E j \in {1, 2}, typed \in {<<"a">>, <<" ">>} : FinishEditing(j, typed)
    \/ \E j \in {1, 2} : ActionClicked(j)
    \/ \E text \in {<<" ">>, <<" ", "a">>} : Capture(text)

SpecTexts == InitEmpty /\ [][NextTexts]_vars

(***************************************************************************)
(* Properties.                                                             *)
(***************************************************************************)
\* C1: every Item has is_validated true exactly when validated_at is set.
C1_ValidatedIffTimestamp ==
    item # NoItem => (item.is_validated <=> item.validated_at # NoTime)

\* What the data file holds when it is up to date with the model: the
\* settings, and `lists` followed by the clipboard list when capture is
\* enabled and the list exists.
UpToDateFile ==
    Json([settings |-> [settings EXCEPT !.window_position = [list |-> @]],
          lists |-> IF settings.clipboard_enabled /\ clipboard_list # NoList
                        THEN lists \o <<clipboard_list>>
                        ELSE lists])

\* C2: when add_list, remove_list, enable_clipboard or disable_clipboard
\* returns and its write succeeded, the data file is the serialization of
\* the current settings and of `lists` followed by the clipboard list iff
\* capture is enabled.
C2_FileFollowsModel ==
    (op.name \in {"add_list", "remove_list", "enable_clipboard", "disable_clipboard"}
        /\ op.io = "ok")
    => data_file = UpToDateFile

\* disable_clipboard has returned on a store with an ordinary list and a
\* clipboard list, which the file must no longer hold.
C2_Witness ==
    /\ op.name = "disable_clipboard"
    /\ op.io = "ok"
    /\ clipboard_list # NoList
    /\ Len(lists) > 0

\* C5: get_all_lists() is `lists` in order, followed by clipboard_list iff
\* capture is enabled and the list exists, and a call leaves the store as
\* it was.
C5_GetAllLists ==
    LET has == settings.clipboard_enabled /\ clipboard_list # NoList
        all == get_all_lists
    IN  /\ Len(all) = Len(lists) + (IF has THEN 1 ELSE 0)
        /\ \A i \in 1..Len(lists) : all[i] = lists[i]
        /\ has => all[Len(all)] = clipboard_list
        /\ op.name = "get_all_lists" =>
                /\ op.returned = all
                /\ op.before = <<settings, lists, clipboard_list, data_file>>

\* get_all_lists() was called with capture disabled on a store that holds
\* an ordinary list and a clipboard list.
C5_Witness ==
    /\ op.name = "get_all_lists"
    /\ ~settings.clipboard_enabled
    /\ clipboard_list # NoList
    /\ Len(lists) > 0
    /\ Len(op.returned) = Len(lists)

\* C6: no element of `lists` has the reserved id, and clipboard_list, when
\* present, has it.
C6_ReservedId ==
    /\ \A i \in DOMAIN lists : lists[i].id # CLIPBOARD_LIST_ID
    /\ clipboard_list # NoList => clipboard_list.id = CLIPBOARD_LIST_ID

\* A file with two records of the reserved id was loaded, then a list added.
C6_Witness ==
    /\ op.name = "add_list"
    /\ data_file.kind = "json"
    /\ clipboard_list # NoList
    /\ clipboard_list.name = "ClipBoard"
    /\ Len(clipboard_list.items) = 1
    /\ Len(lists) = 2
    /\ lists[1].id = "f1"

\* C7: a load() that fails leaves the store in its default state.
C7_FailedLoadLeavesDefault ==
    (op.name = "load" /\ op.raised)
    => (settings = DefaultSettings /\ lists = <<>> /\ clipboard_list = NoList)

\* C8: a save that fails leaves the complete previous content or the
\* complete new content in the data file.
C8_SaveIsAtomic ==
    ("io" \in DOMAIN op /\ op.io # "ok")
    => (data_file = op.old \/ data_file = UpToDateFile)

\* C9: a successful save() followed by load() into a fresh store yields
\* equal settings and an equal get_all_lists().
C9_SaveLoadRoundTrip ==
    (op.name = "load" /\ op.restart)
    => (~op.raised /\ settings = op.before.settings /\ get_all_lists = op.before.all)

\* The texts of the clipboard list's items, in order.
ClipboardTexts == [i \in DOMAIN clipboard_list.items |-> clipboard_list.items[i].text]

\* A text the watcher captures: neither empty nor whitespace only.
Capturable(t) == \E i \in DOMAIN t : t[i] \notin Whitespace

\* The elements of a sequence in order of first occurrence.
RECURSIVE FirstOccurrences(_)
FirstOccurrences(seq) ==
    IF seq = <<>> THEN <<>>
    ELSE LET front == SubSeq(seq, 1, Len(seq) - 1)
             x == seq[Len(seq)]
         IN  IF \E i \in DOMAIN front : front[i] = x
                 THEN FirstOccurrences(front)
                 ELSE Append(FirstOccurrences(front), x)

\* C3: with capture enabled, an empty clipboard list and no deletion, the
\* clipboard list's texts are the distinct non-empty, non-whitespace-only
\* texts notified, in order of first occurrence.
C3_CapturedTexts ==
    ClipboardTexts = FirstOccurrences(SelectSeq(hist, Capturable))

\* The notifications a, a, empty, b, a have been handled.
C3_Witness ==
    /\ hist = << <<"a">>, <<"a">>, <<>>, <<"b">>, <<"a">> >>
    /\ ClipboardTexts = << <<"a">>, <<"b">> >>

\* C4: no two items of the clipboard list have equal text.
C4_NoDuplicateText ==
    clipboard_list # NoList =>
        \A i, j \in DOMAIN clipboard_list.items :
            clipboard_list.items[i].text = clipboard_list.items[j].text => i = j

\* A text was captured, its item deleted, another text captured and the
\* first text captured again.
C4_Witness ==
    /\ op.name = "clipboard_changed"
    /\ op.emitted
    /\ ClipboardTexts = << <<"b">>, <<"a">> >>
    /\ clipboard_list.items[2].id = Uuid(3)

\* C10: deserialize(serialize(x)) equals x field for field, for every Item
\* of a list and for the List itself, items in the same order.
C10_RoundTrip ==
    /\ todo # NoList =>
          \A i \in DOMAIN todo.items :
              ItemFromDict(ItemToDict(todo.items[i]), Uuid(nextId + 1), now) = todo.items[i]
    /\ op.name = "list_roundtrip" => (~op.raised /\ todo = op.before)

\* A list of two items, the first validated and edited after its creation,
\* the second created by add_item, has gone through to_dict and from_dict.
C10_Witness ==
    /\ op.name = "list_roundtrip"
    /\ Len(todo.items) = 2
    /\ todo.items[1].is_validated
    /\ todo.items[1].modified_at # todo.items[1].created_at
    /\ todo.items[2].id = Uuid(1)
    /\ ~todo.items[2].is_validated

\* C11: within one session no add_list, remove_list, enable_clipboard,
\* disable_clipboard or save makes an existing clipboard_list absent or
\* changes it; enable_clipboard creates the empty list with the reserved id
\* only when none exists, and after it (hence after disable_clipboard then
\* enable_clipboard) the list is the last element of get_all_lists().
C11_ClipboardListRetained ==
    [][(op'.name \in {"add_list", "remove_list", "enable_clipboard",
                      "disable_clipboard", "save"})
        => /\ clipboard_list # NoList => clipboard_list' = clipboard_list
           /\ op'.name # "enable_clipboard" => clipboard_list' = clipboard_list
           /\ op'.name = "enable_clipboard" =>
                /\ clipboard_list = NoList =>
                      clipboard_list' = TodoList("ClipBoard", "#808080", CLIPBOARD_LIST_ID, <<>>, None)
                /\ get_all_lists' = Append(lists, clipboard_list')
           /\ op'.name = "disable_clipboard" => get_all_lists' = lists]_vars

\* enable_clipboard has brought back a clipboard list with its item after a
\* disable_clipboard: the file, which the failed save of enable_clipboard
\* left alone, still holds what disable_clipboard wrote.
C11_Witness ==
    /\ op.name = "enable_clipboard"
    /\ op.io = "open_fails"
    /\ data_file.kind = "json"
    /\ ~data_file.data.settings.clipboard_enabled
    /\ Len(data_file.data.lists) = Len(lists)
    /\ Len(clipboard_list.items) = 1
    /\ get_all_lists[Len(lists) + 1] = clipboard_list

\* Whether the list l holds what the file record d says: id, name, color
\* and, item by item in order, text and validation flag.
HoldsRecord(l, d) ==
    LET its == Get(d, "items", <<>>)
    IN  /\ l.id = d["id"]
        /\ l.name = d["name"]
        /\ l.color = d["color"]
        /\ Len(l.items) = Len(its)
        /\ \A i \in DOMAIN its :
              /\ l.items[i].text = its[i]["text"]
              /\ l.items[i].is_validated = Get(its[i], "is_validated", FALSE)
              /\ Has(its[i], "id") => l.items[i].id = its[i]["id"]

\* C12: after a successful load() of a file into a fresh store,
\* clipboard_list is present iff the file's settings enable capture; it is
\* then the file's first record with the reserved id or, without such a
\* record, a new empty list named "ClipBoard" with the reserved id; `lists`
\* holds the file's records with another id, in file order.
C12_LoadBuildsStore ==
    (op.name = "load" /\ ~op.raised /\ data_file.kind = "json")
    => LET recs == Get(data_file.data, "lists", <<>>)
           enabled == Get(Get(data_file.data, "settings", EmptyDict), "clipboard_enabled", FALSE)
           clips == SelectSeq(recs, LAMBDA d : d["id"] = CLIPBOARD_LIST_ID)
           others == SelectSeq(recs, LAMBDA d : d["id"] # CLIPBOARD_LIST_ID)
       IN  /\ clipboard_list # NoList <=> enabled
           /\ (enabled /\ clips # <<>>) => HoldsRecord(clipboard_list, clips[1])
           /\ (enabled /\ clips = <<>>) =>
                  clipboard_list = [id |-> CLIPBOARD_LIST_ID, name |-> "ClipBoard",
                                    color |-> "#808080", items |-> <<>>]
           /\ Len(lists) = Len(others)
           /\ \A i \in DOMAIN others : HoldsRecord(lists[i], others[i])

\* A file with an ordinary list between two records of the reserved id was
\* loaded with capture enabled.
C12_Witness ==
    /\ op.name = "load"
    /\ ~op.raised
    /\ data_file = Json([settings |-> SettingsOn, lists |-> <<ListA, ListClip, ListClip2>>])
    /\ Len(lists) = 1
    /\ clipboard_list.name = "ClipBoard"
    /\ Len(clipboard_list.items) = 1

\* The (list, item) pairs of get_all_lists(), lists in order and each list's
\* items in order.
RECURSIVE ItemsInOrder(_)
ItemsInOrder(ls) ==
    IF ls = <<>> THEN <<>>
    ELSE [i \in DOMAIN Head(ls).items |-> [list |-> Head(ls), item |-> Head(ls).items[i]]]
         \o ItemsInOrder(Tail(ls))

\* The fields of an item that search looks at, in the order of precedence;
\* an absent timestamp has no formatted text.
SearchFields(it) ==
    <<[label |-> "Texte", value |-> Lower(it.text)],
      [label |-> "Date de creation", value |-> Format(it.created_at)],
      [label |-> "Date de modification", value |-> Format(it.modified_at)],
      [label |-> "Date de validation",
       value |-> IF it.validated_at = NoTime THEN <<>> ELSE Format(it.validated_at)]>>

MatchingFields(q, it) == {k \in 1..4 : Contains(Lower(q), SearchFields(it)[k].value)}

FirstMatch(q, it) ==
    SearchFields(it)[CHOOSE k \in MatchingFields(q, it) : \A j \in MatchingFields(q, it) : k <= j].label

\* C13: the search result is empty for an empty or whitespace-only query;
\* otherwise it holds, in the order of get_all_lists() and of each list's
\* items, exactly the items of which the text or a formatted timestamp
\* contains the lower-cased query, each once, with the first matching field
\* in the order text, created, modified, validated.
C13_SearchReference ==
    op.name = "search" =>
        LET q == op.query
            hits == SelectSeq(ItemsInOrder(get_all_lists),
                              LAMBDA p : MatchingFields(q, p.item) # {})
        IN  IF q = <<>> \/ \A i \in DOMAIN q : q[i] \in Whitespace
                THEN op.results = <<>>
                ELSE op.results =
                        [i \in DOMAIN hits |->
                            [list_id |-> hits[i].list.id, item_id |-> hits[i].item.id,
                             match_type |-> FirstMatch(q, hits[i].item)]]

\* A search for "02/" found an item by its modification date only and
\* another by its validation date only.
C13_Witness ==
    /\ op.name = "search"
    /\ op.query = <<"0", "2", "/">>
    /\ \E i \in DOMAIN op.results : op.results[i].match_type = "Date de modification"
    /\ \E i \in DOMAIN op.results : op.results[i].match_type = "Date de validation"

\* C14: searching with q yields the results of searching with q stripped of
\* leading and trailing whitespace.
C14_TrimmedQuery ==
    op.name = "search" => op.results = perform_search(Strip(op.query), get_all_lists)

\* The ids of the items of a list.
ItemIdsOf(l) == {l.items[i].id : i \in DOMAIN l.items}

\* C15: add_item appends the item it returns at the end, new with
\* created_at = modified_at, not validated and with an id no other item of
\* the list has; remove_item takes out the item with the given id and keeps
\* the others in order, and with an id not in the list it changes nothing;
\* the ids of a list's items are pairwise distinct.
C15_AddRemoveItems ==
    /\ [](todo # NoList =>
            \A i, j \in DOMAIN todo.items : todo.items[i].id = todo.items[j].id => i = j)
    /\ [][/\ op'.name = "add_item" =>
                /\ todo'.items = Append(todo.items, op'.returned)
                /\ op'.returned.created_at = op'.returned.modified_at
                /\ ~op'.returned.is_validated
                /\ op'.returned.validated_at = NoTime
                /\ op'.returned.id \notin ItemIdsOf(todo)
                /\ [todo' EXCEPT !.items = <<>>] = [todo EXCEPT !.items = <<>>]
          /\ op'.name = "remove_item" =>
                /\ ~op'.present => todo' = todo
                /\ op'.present =>
                      \E k \in DOMAIN todo.items :
                          /\ todo.items[k].id = op'.item_id
                          /\ todo'.items = SubSeq(todo.items, 1, k - 1)
                                            \o SubSeq(todo.items, k + 1, Len(todo.items))]_vars

\* On a created list two items were added and the first was removed: the
\* second is what is left.
C15_Witness ==
    /\ op.name = "remove_item"
    /\ op.present
    /\ op.item_id = Uuid(2)
    /\ todo.id = Uuid(1)
    /\ Len(todo.items) = 1
    /\ todo.items[1].id = Uuid(3)

\* C16: with a clock that never goes back, update_text sets modified_at to
\* a value at or after the previous one; every item has
\* created_at <= modified_at; a new item has modified_at = created_at and
\* only update_text changes either, so the two are equal until the text is
\* edited.
C16_ModifiedAdvances ==
    /\ [](item # NoItem => item.created_at <= item.modified_at)
    /\ [][/\ (op'.name = "update_text" /\ item.modified_at <= now) =>
                /\ item'.modified_at >= item.modified_at
                /\ item'.modified_at = now
                /\ item'.created_at = item.created_at
          /\ op'.name = "create" => item'.modified_at = item'.created_at
          /\ op'.name \in {"validate", "unvalidate", "roundtrip"} =>
                /\ item'.modified_at = item.modified_at
                /\ item'.created_at = item.created_at]_vars

\* An item created by the program, never edited until then, had its text
\* changed after the clock advanced.
C16_Witness ==
    /\ op.name = "update_text"
    /\ item.id = Uuid(1)
    /\ pre.modified_at = pre.created_at
    /\ item.created_at = pre.created_at
    /\ item.modified_at > item.created_at

\* C17: deserializing an item record that has no `id` field is an error and
\* produces no item.
C17_MissingIdIsError ==
    (op.name = "from_dict" /\ ~op.had_id) => (op.raised /\ item = pre)

\* C18 as stated: remove_list with an id that no element of `lists` has,
\* the reserved id included, leaves `lists`, clipboard_list and settings
\* unchanged; with the id of an element it removes exactly one element and
\* keeps the others in order.
C18_RemovesExactlyOne ==
    [][op'.name = "remove_list" =>
          LET present == {k \in DOMAIN lists : lists[k].id = op'.list_id}
          IN  /\ settings' = settings
              /\ clipboard_list' = clipboard_list
              /\ present = {} => lists' = lists
              /\ present # {} =>
                    \E k \in present :
                        lists' = SubSeq(lists, 1, k - 1) \o SubSeq(lists, k + 1, Len(lists))]_vars

\* C18, amended: remove_list with an id that no element of `lists` has, the
\* reserved id included, leaves `lists`, clipboard_list and settings
\* unchanged; with the id of an element it removes every element with that
\* id, which is one element when the ids are pairwise distinct, and keeps
\* the others in order; it leaves clipboard_list and settings unchanged.
C18_RemoveListFrame ==
    [][op'.name = "remove_list" =>
          LET present == {k \in DOMAIN lists : lists[k].id = op'.list_id}
              kept == SelectSeq(lists, LAMBDA l : l.id # op'.list_id)
          IN  /\ settings' = settings
              /\ clipboard_list' = clipboard_list
              /\ present = {} => lists' = lists
              /\ lists' = kept
              /\ Cardinality(present) = 1 => Len(lists') = Len(lists) - 1]_vars

\* remove_list took the first of two lists out, next to a clipboard list
\* that holds an item.
C18_Witness ==
    /\ op.name = "remove_list"
    /\ op.list_id = "f1"
    /\ Len(lists) = 1
    /\ lists[1].id = Uuid(1)
    /\ clipboard_list # NoList
    /\ Len(clipboard_list.items) = 1

\* C19: after every list-window, item-widget, settings-dialog, tray or
\* clipboard handler that changed the model has completed, the data file
\* is the serialization of the settings and of get_all_lists().
C19_HandlersSave ==
    (op.name \in {"finish_adding", "finish_editing", "item_validated", "item_deleted",
                  "rename_list", "recolor_list", "list_selected", "toggle_visibility",
                  "move_window", "clipboard_changed"}
        /\ (IF op.name = "clipboard_changed" THEN op.emitted
            ELSE IF op.name = "list_selected" THEN TRUE ELSE op.mutated))
    => data_file = UpToDateFile

\* Whether the list the window shows is an element of get_all_lists().
CurrentIsListed ==
    \/ ShownAt # {}
    \/ ShowsClipboard /\ settings.clipboard_enabled /\ clipboard_list # NoList

\* C20: with the settings dialog closed, the list shown by the list window
\* is unset or a member of get_all_lists().
C20_CurrentListIsListed ==
    (Running /\ ~settings_shown) => (current_list = NoList \/ CurrentIsListed)

\* A notification of text t gets past the checks that ignore it: capture
\* is enabled, the clipboard list exists, t is neither empty nor whitespace
\* only nor the last captured text.
Passes(t) ==
    /\ settings.clipboard_enabled
    /\ clipboard_list # NoList
    /\ t # <<>>
    /\ Capturable(t)
    /\ t # last_text

\* C21: when a notification passes the checks (capture enabled, clipboard
\* list present, text non-empty, not whitespace only, different from the
\* last captured text), last_text is the new text when the handler returns,
\* whether the text is appended or rejected as the text of an existing item.
C21_LastTextRecorded ==
    [][(op'.name = "clipboard_changed" /\ Passes(op'.text))
        => last_text' = op'.text]_vars

\* A text that an item of the list already holds, and that is not the last
\* captured text, was notified and rejected.
C21_Witness ==
    /\ op.name = "clipboard_changed"
    /\ ~op.ignored /\ ~op.emitted
    /\ last_text = op.text
    /\ \E i \in DOMAIN clipboard_list.items : clipboard_list.items[i].text = op.text

\* C22: a notification that is ignored (capture disabled, no clipboard
\* list, empty text, whitespace-only text or the last captured text)
\* changes neither the clipboard list, last_text, the settings, the lists
\* nor the data file, and emits no clipboard_changed signal.
C22_IgnoredChangesNothing ==
    [][(op'.name = "clipboard_changed" /\ ~Passes(op'.text))
        => /\ UNCHANGED <<clipboard_list, last_text, settings, lists, data_file>>
           /\ ~op'.emitted]_vars

\* A whitespace-only text was notified while capture was enabled and after
\* another text had been captured.
C22_Witness ==
    /\ op.name = "clipboard_changed"
    /\ op.text = <<" ">>
    /\ op.ignored
    /\ settings.clipboard_enabled
    /\ last_text = <<"a">>

\* C23: clipboard_changed is emitted for a notification exactly when the
\* notification appended an item to the clipboard list; when it is emitted
\* the save has already written the new item; a notification appends at
\* most one item.
C23_EmittedIffAppended ==
    [][op'.name = "clipboard_changed"
        => /\ op'.emitted <=> clipboard_list' # clipboard_list
           /\ op'.emitted =>
                 /\ clipboard_list'.items = Append(clipboard_list.items,
                         clipboard_list'.items[Len(clipboard_list'.items)])
                 /\ clipboard_list'.items[Len(clipboard_list'.items)].text = op'.text
                 /\ op'.at_emit = UpToDateFile']_vars

\* The second captured text was appended after the first and the signal
\* emitted.
C23_Witness ==
    /\ op.name = "clipboard_changed"
    /\ op.emitted
    /\ ClipboardTexts = << <<"a">>, <<"b">> >>
    /\ op.text = <<"b">>

\* C24: whenever a notification is handled while capture is enabled and the
\* clipboard list exists, with a text that is neither empty nor whitespace
\* only, the clipboard list holds an item with that text when the handler
\* returns, also when deletions of clipboard items are interleaved.
C24_NotifiedTextIsListed ==
    [][(op'.name = "clipboard_changed" /\ settings.clipboard_enabled
            /\ clipboard_list # NoList /\ Capturable(op'.text))
        => \E i \in DOMAIN clipboard_list'.items :
               clipboard_list'.items[i].text = op'.text]_vars


\* C25: every item added with non-blank text through the list window is,
\* when the add handler returns, the last item of a list of get_all_lists()
\* and is contained in the data file, whatever settings-dialog operations
\* (add list, remove list, Save, Cancel) came before.
C25_AddedItemIsStored ==
    [][(op'.name = "finish_adding" /\ op'.mutated)
        => /\ \E i \in DOMAIN get_all_lists' :
                 /\ i \in DOMAIN get_all_lists
                 /\ get_all_lists'[i].items # get_all_lists[i].items
                 /\ get_all_lists'[i].items[Len(get_all_lists'[i].items)].text = op'.text
           /\ data_file' = UpToDateFile']_vars


\* The lists of the store, the clipboard list included when it exists.
StoreLists ==
    {lists[k] : k \in DOMAIN lists} \cup (IF clipboard_list = NoList THEN {} ELSE {clipboard_list})

\* Per list of the store, the id, text and modified_at of its items in order.
TextsAndTimes(ls, cl) ==
    LET view(l) == IF l = NoList THEN <<>>
                   ELSE [i \in DOMAIN l.items |->
                            <<l.items[i].id, l.items[i].text, l.items[i].modified_at>>]
    IN  <<[k \in DOMAIN ls |-> view(ls[k])], view(cl)>>

\* C26: starting from an empty store, after any sequence of list-window
\* adds, item edits and clipboard captures no item of any list has empty or
\* whitespace-only text; an add or an edit whose trimmed text is empty
\* leaves the items of the lists and the text and modified_at of every item
\* unchanged.
C26_NoBlankText ==
    /\ [](\A l \in StoreLists : \A i \in DOMAIN l.items : Capturable(l.items[i].text))
    /\ [][(op'.name \in {"finish_adding", "finish_editing"} /\ op'.text = <<>>)
            => TextsAndTimes(lists', clipboard_list') = TextsAndTimes(lists, clipboard_list)]_vars

\* A validated item was edited with a blank text; an added item and a
\* captured text with a leading space are in the store.
C26_Witness ==
    /\ op.name = "finish_editing"
    /\ op.text = <<>>
    /\ op.mutated
    /\ Len(lists) = 1 /\ Len(lists[1].items) = 1
    /\ clipboard_list # NoList /\ Len(clipboard_list.items) = 1


\* C27: the action button removes an item of an ordinary list only if the
\* item was validated before the click: a click on an unvalidated item
\* validates it and keeps it in the list, a click on a validated item
\* removes it; an item of the clipboard list is removed by the first click
\* and the button validates no item of the clipboard list.
C27_ActionButton ==
    [][(op'.name \in {"item_deleted", "item_validated"} /\ Shown # NoList)
        => LET j == op'.index
               before == Shown.items
               after == Shown'.items
               others == SelectSeq(before, LAMBDA x : x.id # before[j].id)
           IN  IF ShowsClipboard \/ before[j].is_validated
                   THEN /\ op'.name = "item_deleted"
                        /\ after = others
                        /\ Len(after) = Len(before) - 1
                   ELSE /\ op'.name = "item_validated"
                        /\ Len(after) = Len(before)
                        /\ after[j].is_validated
                        /\ after[j].id = before[j].id /\ after[j].text = before[j].text
                        /\ \A k \in DOMAIN before : k # j => after[k] = before[k]]_vars

\* The only unvalidated item of the ordinary list was validated by a first
\* click and removed by a second one.
C27_Witness ==
    /\ op.name = "item_deleted"
    /\ ~ShowsClipboard
    /\ Shown # NoList
    /\ Len(Shown.items) = 1
    /\ Shown.items[1].id = "i1"


\* C28: when an edit session on an item finishes the item is unvalidated
\* (is_validated false, validated_at null) whether or not its text changed;
\* its text and modified_at change only if the trimmed new text is
\* non-empty and differs from the previous text.
C28_EditUnvalidates ==
    [][(op'.name = "finish_editing" /\ Shown # NoList)
        => LET before == Shown.items[op'.index]
               after == Shown'.items[op'.index]
               changes == op'.text # <<>> /\ op'.text # before.text
           IN  /\ ~after.is_validated
               /\ after.validated_at = NoTime
               /\ after.id = before.id
               /\ after.created_at = before.created_at
               /\ IF changes THEN after.text = op'.text /\ after.modified_at = now
                  ELSE after.text = before.text /\ after.modified_at = before.modified_at]_vars

\* The validated item was edited and its text left as it was.
C28_Witness ==
    /\ op.name = "finish_editing"
    /\ op.mutated
    /\ Shown # NoList
    /\ op.text = Shown.items[op.index].text
    /\ Shown.items[op.index].modified_at = 2
    /\ ~Shown.items[op.index].is_validated


\* The id of the list the window shows.
CurrentId == IF current_list.ref = "clipboard" THEN CLIPBOARD_LIST_ID ELSE current_list.id

\* C29: whenever the list window has a current list, settings.last_list_id
\* is that list's id; after a restart (save, load into a new store,
\* load_last_list) the window shows the list with the persisted
\* last_list_id if get_list resolves it, otherwise the first element of
\* get_all_lists(), and no list if get_all_lists() is empty.
C29_LastListReopened ==
    /\ []((Running /\ current_list # NoList) => settings.last_list_id = CurrentId)
    /\ [][(op'.name = "launch" /\ op.name = "init" /\ op.saved)
            => LET id == op.before.settings.last_list_id
               IN  /\ data_file.data.settings.last_list_id = id
                   /\ IF id # None /\ GetList(lists', clipboard_list', id) # NoList
                         THEN current_list' = CurrentRef(id)
                      ELSE IF get_all_lists' # <<>>
                         THEN current_list' = CurrentRef(get_all_lists'[1].id)
                      ELSE current_list' = NoList]_vars

\* After a restart the persisted last_list_id, the id of a list removed
\* while it was shown, resolved to no list and the first list is shown.
C29_Witness ==
    /\ op.name = "launch"
    /\ op.restart
    /\ op.last # None
    /\ current_list # NoList
    /\ CurrentId # op.last


\* C30: validate and unvalidate leave id, text, created_at and modified_at
\* unchanged; update_text leaves id, created_at, is_validated and
\* validated_at unchanged; unvalidate, also right after validate, leaves
\* is_validated false and validated_at null.
C30_MutatorFrames ==
    [][/\ op'.name \in {"validate", "unvalidate"} =>
            /\ item'.id = item.id
            /\ item'.text = item.text
            /\ item'.created_at = item.created_at
            /\ item'.modified_at = item.modified_at
       /\ op'.name = "validate" => (item'.is_validated /\ item'.validated_at = now)
       /\ op'.name = "unvalidate" => (~item'.is_validated /\ item'.validated_at = NoTime)
       /\ op'.name = "update_text" =>
            /\ item'.id = item.id
            /\ item'.created_at = item.created_at
            /\ item'.is_validated = item.is_validated
            /\ item'.validated_at = item.validated_at]_vars

\* The text of a validated item was updated; the item is still validated.
C30_Witness ==
    /\ op.name = "update_text"
    /\ pre # NoItem
    /\ pre.is_validated /\ pre.validated_at # NoTime
    /\ item.text # pre.text
    /\ item.is_validated /\ item.validated_at = pre.validated_at


====
